---------------------------- MODULE Spec2Model ----------------------------
(***************************************************************************)
(* utouch: FreeBSD driver for absolute USB HID mice (src/utouch.c).        *)
(*                                                                         *)
(* The model covers the descriptor scanner utouch_hid_test, the extractor  *)
(* utouch_hid_parse, probe/attach/detach, the evdev open/close methods and *)
(* the interrupt transfer callback utouch_intr_callback that decodes one   *)
(* report into evdev events.                                               *)
(*                                                                         *)
(* The kernel's HID library is outside the repository.  A descriptor is    *)
(* modelled as the sequence of items hid_get_item() hands to the driver;   *)
(* hid_locate() and hid_get_data() are modelled by their interface as used *)
(* at the call sites.                                                      *)
(***************************************************************************)
EXTENDS Integers, Sequences, FiniteSets, TLC

(***************************************************************************)
(* Bounds of the model.                                                    *)
(***************************************************************************)
\* longest enumerated item sequence of the axis descriptors
MaxItems == 3
\* highest Button usage number that occurs in a button descriptor
MaxBtnUsage == 9
\* number of reports decoded after one attach
MaxDecodes == 3
\* length of the oversized report the device may deliver
MaxXferLen == 66
\* wheel fields before, and after, the Mouse collection of a wheel descriptor
MaxWheelItems == 2

(***************************************************************************)
(* Program constants.                                                      *)
(***************************************************************************)
UTOUCH_BUTTON_MAX == 8
\* sizeof(sc->sc_temp)
TempSize == 64

\* usage pages and usages (usbhid.h), combined by HID_USAGE2
HUP_GENERIC_DESKTOP == 1
HUP_BUTTON == 9
HUG_MOUSE == 2
HUG_X == 48
HUG_Y == 49
HUG_WHEEL == 56
HUG_TWHEEL == 72

HID_USAGE2(p, u) == p * 65536 + u

\* input item flag bits, kept as a set of bit names: (flags & M) is flags \cap M
HIO_CONST == "HIO_CONST"
HIO_VARIABLE == "HIO_VARIABLE"
HIO_RELATIVE == "HIO_RELATIVE"

\* sc_flags bits, kept as a set of bit names: sc_flags == 0 is sc_flags = {}
UTOUCH_FLAG_X_AXIS == "UTOUCH_FLAG_X_AXIS"
UTOUCH_FLAG_Y_AXIS == "UTOUCH_FLAG_Y_AXIS"
UTOUCH_FLAG_Z_AXIS == "UTOUCH_FLAG_Z_AXIS"

(***************************************************************************)
(* Descriptor items as returned by hid_get_item (struct hid_item).         *)
(***************************************************************************)
ZeroLoc == [pos |-> 0, size |-> 0, count |-> 0]

ZeroAbsinfo == [min |-> 0, max |-> 0, res |-> 0]

Collection(ctype, usage) ==
    [kind |-> "hid_collection", collection |-> ctype, usage |-> usage,
     flags |-> {}, loc |-> ZeroLoc, report_ID |-> 0,
     logical_minimum |-> 0, logical_maximum |-> 0, res |-> 0]

EndCollection ==
    [kind |-> "hid_endcollection", collection |-> 0, usage |-> 0,
     flags |-> {}, loc |-> ZeroLoc, report_ID |-> 0,
     logical_minimum |-> 0, logical_maximum |-> 0, res |-> 0]

Input(usage, flags, pos, size, id, lmin, lmax, res) ==
    [kind |-> "hid_input", collection |-> 0, usage |-> usage,
     flags |-> flags, loc |-> [pos |-> pos, size |-> size, count |-> 1],
     report_ID |-> id,
     logical_minimum |-> lmin, logical_maximum |-> lmax, res |-> res]

\* hid_item_resolution(&hi): the resolution the library derives from the
\* item's unit information, 0 when the descriptor gives none
hid_item_resolution(hi) == hi.res

(***************************************************************************)
(* The walk both utouch_hid_test and utouch_hid_parse make over the items. *)
(***************************************************************************)
\* variant: at mdepth 0 any collection is entered, whatever its type and usage
WalkDepthAny(mdepth, hi) ==
    IF hi.kind = "hid_collection"
    THEN mdepth + 1
    ELSE IF hi.kind = "hid_endcollection"
         THEN IF mdepth # 0 THEN mdepth - 1 ELSE mdepth
         ELSE mdepth

\* variant: an End Collection decrements mdepth whatever its value
WalkDepthUnguarded(mdepth, hi) ==
    IF hi.kind = "hid_collection"
    THEN IF mdepth # 0
         THEN mdepth + 1
         ELSE IF hi.collection = 1
                 /\ hi.usage = HID_USAGE2(HUP_GENERIC_DESKTOP, HUG_MOUSE)
              THEN mdepth + 1
              ELSE mdepth
    ELSE IF hi.kind = "hid_endcollection"
         THEN mdepth - 1
         ELSE mdepth

\* case hid_collection / case hid_endcollection: the new mdepth
WalkDepth(mdepth, hi) ==
    IF hi.kind = "hid_collection"
    THEN IF mdepth # 0
         THEN mdepth + 1
         ELSE IF hi.collection = 1
                 /\ hi.usage = HID_USAGE2(HUP_GENERIC_DESKTOP, HUG_MOUSE)
              THEN mdepth + 1
              ELSE mdepth
    ELSE IF hi.kind = "hid_endcollection"
         THEN IF mdepth # 0 THEN mdepth - 1 ELSE mdepth
         ELSE mdepth

\* (hi.flags & (HIO_CONST|HIO_VARIABLE|HIO_RELATIVE)) == HIO_VARIABLE
EligibleFlags(hi) ==
    (hi.flags \cap {HIO_CONST, HIO_VARIABLE, HIO_RELATIVE}) = {HIO_VARIABLE}

IsEligible(hi, u) ==
    /\ hi.kind = "hid_input"
    /\ hi.usage = HID_USAGE2(HUP_GENERIC_DESKTOP, u)
    /\ EligibleFlags(hi)

\* variant: input fields are counted whatever mdepth is
TestItemNoDepth(st, hi) ==
    IF hi.kind = "hid_input"
    THEN [st EXCEPT !.found =
             st.found + (IF IsEligible(hi, HUG_X) THEN 1 ELSE 0)
                      + (IF IsEligible(hi, HUG_Y) THEN 1 ELSE 0)]
    ELSE [st EXCEPT !.mdepth = WalkDepth(st.mdepth, hi)]

\* one iteration of the while loop of utouch_hid_test
TestItem(st, hi) ==
    IF hi.kind = "hid_input"
    THEN IF st.mdepth = 0
         THEN st
         ELSE [st EXCEPT !.found =
                 st.found + (IF IsEligible(hi, HUG_X) THEN 1 ELSE 0)
                          + (IF IsEligible(hi, HUG_Y) THEN 1 ELSE 0)]
    ELSE [st EXCEPT !.mdepth = WalkDepth(st.mdepth, hi)]

RECURSIVE TestWalk(_, _)
TestWalk(st, items) ==
    IF items = <<>> THEN st
    ELSE TestWalk(TestItem(st, Head(items)), Tail(items))

\* utouch_hid_test: the value returned, the number of eligible X and Y
\* fields seen at mdepth # 0
utouch_hid_test(items) == TestWalk([mdepth |-> 0, found |-> 0], items).found

(***************************************************************************)
(* struct utouch_softc: the capability fields.                             *)
(***************************************************************************)
ZeroSc ==
    [sc_flags |-> {},
     sc_loc_x |-> ZeroLoc, sc_loc_y |-> ZeroLoc, sc_loc_z |-> ZeroLoc,
     sc_loc_btn |-> [i \in 1..UTOUCH_BUTTON_MAX |-> ZeroLoc],
     sc_ai_x |-> ZeroAbsinfo, sc_ai_y |-> ZeroAbsinfo,
     sc_iid_x |-> 0, sc_iid_y |-> 0, sc_iid_z |-> 0,
     sc_iid_btn |-> [i \in 1..UTOUCH_BUTTON_MAX |-> 0],
     sc_nbuttons |-> 0]

\* variant: the first eligible X field is kept, later ones are passed over
ParseXFirst(sc, hi) ==
    IF IsEligible(hi, HUG_X) /\ UTOUCH_FLAG_X_AXIS \notin sc.sc_flags
    THEN [sc EXCEPT !.sc_flags = @ \cup {UTOUCH_FLAG_X_AXIS},
                    !.sc_loc_x = hi.loc,
                    !.sc_iid_x = hi.report_ID,
                    !.sc_ai_x = [max |-> hi.logical_maximum,
                                 min |-> hi.logical_minimum,
                                 res |-> hid_item_resolution(hi)]]
    ELSE sc

ParseX(sc, hi) ==
    IF IsEligible(hi, HUG_X)
    THEN [sc EXCEPT !.sc_flags = @ \cup {UTOUCH_FLAG_X_AXIS},
                    !.sc_loc_x = hi.loc,
                    !.sc_iid_x = hi.report_ID,
                    !.sc_ai_x = [max |-> hi.logical_maximum,
                                 min |-> hi.logical_minimum,
                                 res |-> hid_item_resolution(hi)]]
    ELSE sc

ParseY(sc, hi) ==
    IF IsEligible(hi, HUG_Y)
    THEN [sc EXCEPT !.sc_flags = @ \cup {UTOUCH_FLAG_Y_AXIS},
                    !.sc_loc_y = hi.loc,
                    !.sc_iid_y = hi.report_ID,
                    !.sc_ai_y = [max |-> hi.logical_maximum,
                                 min |-> hi.logical_minimum,
                                 res |-> hid_item_resolution(hi)]]
    ELSE sc

\* one iteration of the while loop of utouch_hid_parse; nset counts the
\* times the body of the X branch or of the Y branch ran
ParseItem(st, hi) ==
    IF hi.kind = "hid_input"
    THEN IF st.mdepth = 0
         THEN st
         ELSE [st EXCEPT !.sc = ParseY(ParseX(st.sc, hi), hi),
                         !.nset = @ + (IF IsEligible(hi, HUG_X) THEN 1 ELSE 0)
                                    + (IF IsEligible(hi, HUG_Y) THEN 1 ELSE 0)]
    ELSE [st EXCEPT !.mdepth = WalkDepth(st.mdepth, hi)]

RECURSIVE ParseWalk(_, _)
ParseWalk(st, items) ==
    IF items = <<>> THEN st
    ELSE ParseWalk(ParseItem(st, Head(items)), Tail(items))

\* hid_locate(buf, len, usage, hid_input, 0, &loc, &flags, &id): the index of
\* the first input item with the usage, 0 when there is none
RECURSIVE LocateFrom(_, _, _)
LocateFrom(items, u, i) ==
    IF i > Len(items) THEN 0
    ELSE IF items[i].kind = "hid_input" /\ items[i].usage = u THEN i
         ELSE LocateFrom(items, u, i + 1)

hid_locate(items, u) == LocateFrom(items, u, 1)

\* variant: the tilt wheel is tried whenever no variable wheel was found
ParseWheelFallback(sc, items) ==
    LET w == hid_locate(items, HID_USAGE2(HUP_GENERIC_DESKTOP, HUG_WHEEL))
        t == hid_locate(items, HID_USAGE2(HUP_GENERIC_DESKTOP, HUG_TWHEEL))
        k == IF w # 0 /\ (HIO_VARIABLE \in items[w].flags \/ t = 0)
             THEN w ELSE t
    IN  IF k = 0
        THEN sc
        ELSE [sc EXCEPT !.sc_loc_z = items[k].loc,
                        !.sc_iid_z = items[k].report_ID,
                        !.sc_flags = IF HIO_VARIABLE \in items[k].flags
                                     THEN @ \cup {UTOUCH_FLAG_Z_AXIS}
                                     ELSE @]

\* "Try the wheel first as the Z activator": wheel, else tilt wheel
ParseWheel(sc, items) ==
    LET w == hid_locate(items, HID_USAGE2(HUP_GENERIC_DESKTOP, HUG_WHEEL))
        t == hid_locate(items, HID_USAGE2(HUP_GENERIC_DESKTOP, HUG_TWHEEL))
        k == IF w # 0 THEN w ELSE t
    IN  IF k = 0
        THEN sc
        ELSE [sc EXCEPT !.sc_loc_z = items[k].loc,
                        !.sc_iid_z = items[k].report_ID,
                        !.sc_flags = IF HIO_VARIABLE \in items[k].flags
                                     THEN @ \cup {UTOUCH_FLAG_Z_AXIS}
                                     ELSE @]

\* variant: the loop goes on past a usage that is not found
RECURSIVE ParseButtonsSkip(_, _, _)
ParseButtonsSkip(sc, items, i) ==
    IF i >= UTOUCH_BUTTON_MAX
    THEN sc
    ELSE LET k == LocateFrom(items, HID_USAGE2(HUP_BUTTON, i + 1), 1)
         IN  IF k = 0
             THEN ParseButtonsSkip(sc, items, i + 1)
             ELSE ParseButtonsSkip(
                      [sc EXCEPT !.sc_loc_btn[sc.sc_nbuttons + 1] = items[k].loc,
                                 !.sc_iid_btn[sc.sc_nbuttons + 1] = items[k].report_ID,
                                 !.sc_nbuttons = @ + 1],
                      items, i + 1)

\* "figure out the number of buttons": the for loop from index i (0-based),
\* leaving the loop at the first usage hid_locate does not find
RECURSIVE ParseButtons(_, _, _)
ParseButtons(sc, items, i) ==
    IF i >= UTOUCH_BUTTON_MAX
    THEN [sc EXCEPT !.sc_nbuttons = i]
    ELSE LET k == hid_locate(items, HID_USAGE2(HUP_BUTTON, i + 1))
         IN  IF k = 0
             THEN [sc EXCEPT !.sc_nbuttons = i]
             ELSE ParseButtons(
                      [sc EXCEPT !.sc_loc_btn[i + 1] = items[k].loc,
                                 !.sc_iid_btn[i + 1] = items[k].report_ID],
                      items, i + 1)

\* utouch_hid_parse on a softc
utouch_hid_parse(sc, items) ==
    ParseButtons(
        ParseWheel(ParseWalk([mdepth |-> 0, sc |-> sc, nset |-> 0], items).sc,
                   items),
        items, 0)


(***************************************************************************)
(* Descriptors the device may serve.                                       *)
(***************************************************************************)
GD(u) == HID_USAGE2(HUP_GENERIC_DESKTOP, u)

\* the items the axis descriptors are built from
AxisItems ==
    { Collection(1, GD(HUG_MOUSE)),
      Collection(1, GD(1)),      \* application, Generic-Desktop/Pointer
      Collection(0, GD(HUG_MOUSE)),
      EndCollection,
      Input(GD(HUG_X), {HIO_VARIABLE}, 8, 8, 0, 0, 4095, 0),
      Input(GD(HUG_X), {HIO_VARIABLE}, 16, 16, 1, -127, 127, 10),
      Input(GD(HUG_X), {HIO_VARIABLE, HIO_RELATIVE}, 0, 8, 0, -127, 127, 0),
      Input(GD(HUG_Y), {HIO_VARIABLE}, 16, 8, 0, 0, 4095, 0),
      Input(GD(HUG_Y), {HIO_VARIABLE}, 32, 16, 1, -32, 32, 5),
      Input(GD(HUG_Y), {HIO_CONST, HIO_VARIABLE}, 24, 8, 2, 0, 255, 0),
      Input(GD(HUG_WHEEL), {HIO_VARIABLE, HIO_RELATIVE}, 32, 8, 0, -127, 127, 0),
      Input(GD(HUG_WHEEL), {HIO_RELATIVE}, 40, 8, 1, -127, 127, 0),
      Input(GD(HUG_TWHEEL), {HIO_VARIABLE, HIO_RELATIVE}, 48, 8, 2, -127, 127, 0) }

\* the collection level hid_get_item keeps: it ends the item stream at an
\* End Collection that closes nothing, so no item sequence holds one
RECURSIVE Nested(_, _)
Nested(items, level) ==
    IF items = <<>> THEN TRUE
    ELSE IF Head(items).kind = "hid_collection"
         THEN Nested(Tail(items), level + 1)
         ELSE IF Head(items).kind = "hid_endcollection"
              THEN level > 0 /\ Nested(Tail(items), level - 1)
              ELSE Nested(Tail(items), level)

AxisDescs ==
    { d \in UNION { [1..n -> AxisItems] : n \in 0..MaxItems } : Nested(d, 0) }

\* a one-bit Button field; usage u lies at bit 24 + (u - 1)
Button(u, id) ==
    Input(HID_USAGE2(HUP_BUTTON, u), {HIO_VARIABLE}, 23 + u, 1, id, 0, 1, 0)

\* the Button items of the usages in S, in ascending order from usage u on
RECURSIVE ButtonsUp(_, _)
ButtonsUp(S, u) ==
    IF u > MaxBtnUsage THEN <<>>
    ELSE (IF u \in S THEN <<Button(u, 0)>> ELSE <<>>) \o ButtonsUp(S, u + 1)

\* the same items in descending order, each in report u % 2
RECURSIVE ButtonsDown(_, _)
ButtonsDown(S, u) ==
    IF u < 1 THEN <<>>
    ELSE (IF u \in S THEN <<Button(u, u % 2)>> ELSE <<>>) \o ButtonsDown(S, u - 1)

MouseXY ==
    << Collection(1, GD(HUG_MOUSE)),
       Input(GD(HUG_X), {HIO_VARIABLE}, 8, 8, 0, 0, 4095, 0),
       Input(GD(HUG_Y), {HIO_VARIABLE}, 16, 8, 0, 0, 4095, 0) >>

\* button descriptors: buttons inside the Mouse collection in ascending
\* order, or after it has closed in descending order
ButtonDescs ==
    { MouseXY \o ButtonsUp(S, 1) \o <<EndCollection>> :
          S \in SUBSET (1..MaxBtnUsage) }
    \cup
    { MouseXY \o <<EndCollection>> \o ButtonsDown(S, MaxBtnUsage) :
          S \in SUBSET (1..MaxBtnUsage) }

\* the wheel and tilt-wheel fields the wheel descriptors are built from
WheelItems ==
    { Input(GD(HUG_WHEEL), {HIO_VARIABLE, HIO_RELATIVE}, 32, 8, 0, -127, 127, 0),
      Input(GD(HUG_WHEEL), {HIO_RELATIVE}, 40, 8, 1, -127, 127, 0),
      Input(GD(HUG_TWHEEL), {HIO_VARIABLE, HIO_RELATIVE}, 48, 8, 2, -127, 127, 0),
      Input(GD(HUG_TWHEEL), {HIO_VARIABLE}, 56, 8, 3, 0, 255, 0) }

WheelSeqs == UNION { [1..n -> WheelItems] : n \in 0..MaxWheelItems }

\* wheel descriptors: wheel fields before the Mouse collection opens, inside
\* it and after it has closed
WheelDescs ==
    { pre \o MouseXY \o inside \o <<EndCollection>> \o post :
          pre \in WheelSeqs, inside \in {<<>>} \cup { <<w>> : w \in WheelItems },
          post \in WheelSeqs }

ParseDescs == AxisDescs \cup ButtonDescs \cup WheelDescs

\* the example: 8-bit X at bit 8 and Y at bit 16 with range 0..4095, Button
\* usages 1, 2, 3 of one bit at bits 24, 25, 26, report_ID 0 throughout
ExampleDesc == MouseXY \o ButtonsUp({1, 2, 3}, 1) \o <<EndCollection>>

\* a field of the sampled descriptors: absent when id < 0
Opt(id, item) == IF id < 0 THEN <<>> ELSE <<item>>

\* X, Y, wheel and two buttons, each absent (-1) or in report 0 or 1
SampleDesc(x, y, z, b) ==
    << Collection(1, GD(HUG_MOUSE)) >>
    \o Opt(x, Input(GD(HUG_X), {HIO_VARIABLE}, 8, 8, x, 0, 4095, 0))
    \o Opt(y, Input(GD(HUG_Y), {HIO_VARIABLE}, 16, 8, y, -128, 127, 0))
    \o Opt(b, Button(1, b)) \o Opt(b, Button(2, b))
    \o Opt(z, Input(GD(HUG_WHEEL), {HIO_VARIABLE, HIO_RELATIVE}, 32, 8, z, -127, 127, 0))
    \o <<EndCollection>>

\* X in the last byte of sc_temp and Y in the byte behind it
FarDesc(id) ==
    << Collection(1, GD(HUG_MOUSE)),
       Input(GD(HUG_X), {HIO_VARIABLE}, 8 * (TempSize - 1), 8, id, 0, 255, 0),
       Input(GD(HUG_Y), {HIO_VARIABLE}, 8 * TempSize, 8, id, 0, 255, 0),
       EndCollection >>

SampleDescs ==
    { SampleDesc(x, y, zb[1], zb[2]) :
          x \in {-1, 0, 1}, y \in {-1, 0, 1},
          zb \in { <<-1, -1>>, <<1, -1>>, <<-1, 1>>, <<0, 0>> } }
    \cup { FarDesc(0), FarDesc(1), ExampleDesc }

(***************************************************************************)
(* Reports the device may deliver.                                         *)
(***************************************************************************)
LongReport == [i \in 1..MaxXferLen |-> IF i = 1 THEN 1 ELSE (3 * i + 1) % 256]

ExampleReport == <<0, 16, 32, 5>>

Reports ==
    << <<>>,
       ExampleReport,
       <<1, 128, 255, 2, 7>>,
       <<1>>,
       LongReport,
       SubSeq(LongReport, 1, TempSize) >>


(***************************************************************************)
(* The report decoder: case USB_ST_TRANSFERRED of utouch_intr_callback.    *)
(***************************************************************************)
RECURSIVE Pow2(_)
Pow2(n) == IF n = 0 THEN 1 ELSE 2 * Pow2(n - 1)

\* the bytes hid_get_data assembles: byte rpos of the n bytes from byte
\* base on, read only when rpos < len, from the buffer that starts off bytes
\* into sc_temp
RECURSIVE GetBytes(_, _, _, _, _)
GetBytes(temp, off, len, base, n) ==
    IF n = 0 THEN 0
    ELSE (IF base + n - 1 < len
          THEN temp[off + base + n] * Pow2(8 * (n - 1))
          ELSE 0)
         + GetBytes(temp, off, len, base, n - 1)

\* variant: the field is taken from bit 0 of its first byte
GetDataNoShift(temp, off, len, loc) ==
    LET hsize == IF loc.size > 32 THEN 32 ELSE loc.size
        n     == (hsize + 7) \div 8
        low   == GetBytes(temp, off, len, loc.pos \div 8, n) % Pow2(hsize)
    IN  IF hsize = 0 THEN 0
        ELSE IF low >= Pow2(hsize - 1) THEN low - Pow2(hsize) ELSE low

\* hid_get_data(buf, len, &loc): the field of loc.size bits at bit loc.pos,
\* least significant bit first, as a signed value of loc.size bits (the call
\* passes the location alone, no logical minimum).  At most four bytes are
\* assembled, so the 32-bit accumulator holds them without loss.
hid_get_data(temp, off, len, loc) ==
    LET hsize == IF loc.size > 32 THEN 32 ELSE loc.size
        n     == (hsize + 7) \div 8
        data  == GetBytes(temp, off, len, loc.pos \div 8, n)
                     \div Pow2(loc.pos % 8)
        low   == data % Pow2(hsize)
    IN  IF hsize = 0 THEN 0
        ELSE IF low >= Pow2(hsize - 1) THEN low - Pow2(hsize) ELSE low

\* variant: the cut is one byte short
TruncLenShort(len) == IF len > TempSize THEN TempSize - 1 ELSE len

\* if (len > (int)sizeof(sc->sc_temp)) len = sizeof(sc->sc_temp)
TruncLen(len) == IF len > TempSize THEN TempSize ELSE len

\* variant: no test for the empty transfer
NoDataNever(len) == FALSE

\* if (len == 0) goto tr_setup
NoData(len) == len = 0

\* variant: the last byte of the frame is not copied
CopyOutShort(temp, report, len) ==
    [i \in 1..TempSize |-> IF i < len THEN report[i] ELSE temp[i]]

\* usbd_copy_out(pc, 0, buf, len): the first len bytes of the frame go to
\* sc_temp, the rest of sc_temp keeps what it held
CopyOut(temp, report, len) ==
    [i \in 1..TempSize |-> IF i <= len THEN report[i] ELSE temp[i]]

\* if (sc->sc_iid_x > 0 || sc->sc_iid_y > 0): the report carries an ID byte
HasReportId(s) == s.sc_iid_x > 0 \/ s.sc_iid_y > 0

Ev(type, code, idx, value) ==
    [type |-> type, code |-> code, idx |-> idx, value |-> value]

\* variant: evdev_sync only after a data event
SyncIfData(data) ==
    IF data = <<>> THEN <<>> ELSE << Ev("EV_SYN", "SYN_REPORT", 0, 1) >>

\* evdev_sync(sc->sc_evdev), called at the end of every decoded report
SyncEvents(data) == << Ev("EV_SYN", "SYN_REPORT", 0, 1) >>

\* the for loop over the buttons from index i (0-based)
RECURSIVE PushButtons(_, _, _, _, _, _)
PushButtons(s, temp, off, len, id, i) ==
    IF i >= s.sc_nbuttons THEN <<>>
    ELSE (IF id = s.sc_iid_btn[i + 1]
          THEN << Ev("EV_KEY", "BTN_MOUSE", i,
                     hid_get_data(temp, off, len, s.sc_loc_btn[i + 1])) >>
          ELSE <<>>)
         \o PushButtons(s, temp, off, len, id, i + 1)

\* variant: the ID byte is taken off the length twice
ReadIdTwice(s, temp, len) ==
    IF HasReportId(s)
    THEN [id |-> temp[1], off |-> 1, len |-> len - 2]
    ELSE [id |-> 0, off |-> 0, len |-> len]

\* id = 0; if (...) { id = *buf; len--; buf++; }: the ID the fields are
\* matched against, the bytes buf has advanced into sc_temp, the length left
ReadId(s, temp, len) ==
    IF HasReportId(s)
    THEN [id |-> temp[1], off |-> 1, len |-> len - 1]
    ELSE [id |-> 0, off |-> 0, len |-> len]

\* variant: Y is pushed before X
PushDataYFirst(s, temp, off, len, id) ==
    (IF UTOUCH_FLAG_Y_AXIS \in s.sc_flags /\ id = s.sc_iid_y
     THEN << Ev("EV_ABS", "ABS_Y", 0,
                hid_get_data(temp, off, len, s.sc_loc_y)) >>
     ELSE <<>>)
    \o
    (IF UTOUCH_FLAG_X_AXIS \in s.sc_flags /\ id = s.sc_iid_x
     THEN << Ev("EV_ABS", "ABS_X", 0,
                hid_get_data(temp, off, len, s.sc_loc_x)) >>
     ELSE <<>>)
    \o
    (IF UTOUCH_FLAG_Z_AXIS \in s.sc_flags /\ id = s.sc_iid_z
     THEN << Ev("EV_REL", "REL_WHEEL", 0,
                hid_get_data(temp, off, len, s.sc_loc_z)) >>
     ELSE <<>>)
    \o PushButtons(s, temp, off, len, id, 0)

\* variant: a capability with report ID 0 matches every report
PushDataWild(s, temp, off, len, id) ==
    (IF UTOUCH_FLAG_X_AXIS \in s.sc_flags /\ (id = s.sc_iid_x \/ s.sc_iid_x = 0)
     THEN << Ev("EV_ABS", "ABS_X", 0,
                hid_get_data(temp, off, len, s.sc_loc_x)) >>
     ELSE <<>>)
    \o
    (IF UTOUCH_FLAG_Y_AXIS \in s.sc_flags /\ (id = s.sc_iid_y \/ s.sc_iid_y = 0)
     THEN << Ev("EV_ABS", "ABS_Y", 0,
                hid_get_data(temp, off, len, s.sc_loc_y)) >>
     ELSE <<>>)
    \o
    (IF UTOUCH_FLAG_Z_AXIS \in s.sc_flags /\ (id = s.sc_iid_z \/ s.sc_iid_z = 0)
     THEN << Ev("EV_REL", "REL_WHEEL", 0,
                hid_get_data(temp, off, len, s.sc_loc_z)) >>
     ELSE <<>>)
    \o PushButtons(s, temp, off, len, id, 0)

\* the data events pushed for the buffer that starts off bytes into temp
PushData(s, temp, off, len, id) ==
    (IF UTOUCH_FLAG_X_AXIS \in s.sc_flags /\ id = s.sc_iid_x
     THEN << Ev("EV_ABS", "ABS_X", 0,
                hid_get_data(temp, off, len, s.sc_loc_x)) >>
     ELSE <<>>)
    \o
    (IF UTOUCH_FLAG_Y_AXIS \in s.sc_flags /\ id = s.sc_iid_y
     THEN << Ev("EV_ABS", "ABS_Y", 0,
                hid_get_data(temp, off, len, s.sc_loc_y)) >>
     ELSE <<>>)
    \o
    (IF UTOUCH_FLAG_Z_AXIS \in s.sc_flags /\ id = s.sc_iid_z
     THEN << Ev("EV_REL", "REL_WHEEL", 0,
                hid_get_data(temp, off, len, s.sc_loc_z)) >>
     ELSE <<>>)
    \o PushButtons(s, temp, off, len, id, 0)

\* case USB_ST_TRANSFERRED up to the fall through to tr_setup: the new
\* sc_temp, the events pushed to the evdev device, and the locals id, buf
\* (as an offset into sc_temp) and len as the case leaves them
Transferred(s, temp, report) ==
    LET len == TruncLen(Len(report))
    IN  IF NoData(len)
        THEN [temp |-> temp, events |-> <<>>, id |-> 0, off |-> 0, len |-> len]
        ELSE LET buf  == CopyOut(temp, report, len)
                 b    == ReadId(s, buf, len)
                 data == PushData(s, buf, b.off, b.len, b.id)
             IN  [temp |-> buf, events |-> data \o SyncEvents(data),
                  id |-> b.id, off |-> b.off, len |-> b.len]


(***************************************************************************)
(* State.                                                                  *)
(***************************************************************************)
VARIABLES
    hid_desc,    \* the items of the report descriptor the device serves
    pc,          \* newbus state of the device for this driver
    probe_err,   \* value utouch_probe returned, "none" before it ran
    found,       \* value utouch_hid_test returned to utouch_probe, -1 if
                 \* utouch_probe did not call it
    attach_err,  \* value utouch_attach returned, "none" before it ran
    sc,          \* the capability fields of the softc
    sc_temp,     \* sc->sc_temp
    evdev,       \* the evdev device: registered or not, what it supports
    xfer,        \* state of the interrupt transfer
    stall,       \* usbd_xfer_set_stall was called and is not yet served
    events,      \* events the latest callback invocation pushed
    last,        \* index in Reports of the report it decoded, 0 if none
    cb,          \* its locals id, buf - sc_temp and len when it decoded
    hist,        \* per report: the events its first decode pushed
    ndecodes,    \* reports decoded since attach
    sink,        \* every event pushed to the evdev device since attach
    call         \* the latest callback invocation: its USB_GET_STATE, its
                 \* error, whether it set the stall, its submit calls

vars == << hid_desc, pc, probe_err, found, attach_err, sc, sc_temp, evdev,
           xfer, stall, events, last, cb, hist, ndecodes, sink, call >>

NoCall == [state |-> "none", error |-> "none", stalled |-> FALSE, submits |-> 0]

NoCb == [id |-> 0, off |-> 0, len |-> 0]

ZeroTemp == [i \in 1..TempSize |-> 0]

NoEvdev == [registered |-> FALSE, abs |-> {}, rel |-> {}, nkeys |-> 0]

NoHist == [r \in 1..Len(Reports) |-> [seen |-> FALSE, ev |-> <<>>]]

InitRest ==
    /\ pc = "unprobed"
    /\ probe_err = "none"
    /\ found = -1
    /\ attach_err = "none"
    /\ sc = ZeroSc
    /\ sc_temp = ZeroTemp
    /\ evdev = NoEvdev
    /\ xfer = "idle"
    /\ stall = FALSE
    /\ events = <<>>
    /\ last = 0
    /\ cb = NoCb
    /\ hist = NoHist
    /\ ndecodes = 0
    /\ sink = <<>>
    /\ call = NoCall

Init == hid_desc \in SampleDescs /\ InitRest

InitParse == hid_desc \in ParseDescs /\ InitRest

(***************************************************************************)
(* utouch_probe                                                            *)
(***************************************************************************)
\* if (utouch_hid_test(d_ptr, d_len)) err = BUS_PROBE_DEFAULT; else ENXIO
ProbeResult(n) == IF n # 0 THEN "BUS_PROBE_DEFAULT" ELSE "ENXIO"

\* host is FALSE for a device-mode port, hidclass for another interface
\* class, got when the descriptor request fails
utouch_probe(host, hidclass, got) ==
    /\ pc = "unprobed"
    /\ IF host /\ hidclass /\ got
       THEN /\ found' = utouch_hid_test(hid_desc)
            /\ probe_err' = ProbeResult(found')
       ELSE /\ found' = -1
            /\ probe_err' = "ENXIO"
    /\ pc' = IF probe_err' = "BUS_PROBE_DEFAULT" THEN "probed" ELSE "rejected"
    /\ UNCHANGED << hid_desc, attach_err, sc, sc_temp, evdev, xfer, stall,
                    events, last, cb, hist, ndecodes, sink, call >>

Probe == \E host, hidclass, got \in BOOLEAN : utouch_probe(host, hidclass, got)

\* utouch_attach asks the device for the descriptor again: a device is free
\* to answer the second request with another descriptor
Redescribe ==
    /\ pc = "probed"
    /\ hid_desc' \in SampleDescs \ {hid_desc}
    /\ UNCHANGED << pc, probe_err, found, attach_err, sc, sc_temp, evdev,
                    xfer, stall, events, last, cb, hist, ndecodes, sink, call >>

(***************************************************************************)
(* utouch_attach, utouch_detach                                            *)
(***************************************************************************)
\* what attach announces to evdev from the parsed softc
Supported(s) ==
    [registered |-> TRUE,
     abs |-> (IF UTOUCH_FLAG_X_AXIS \in s.sc_flags THEN {"ABS_X"} ELSE {})
             \cup
             (IF UTOUCH_FLAG_Y_AXIS \in s.sc_flags THEN {"ABS_Y"} ELSE {}),
     rel |-> IF UTOUCH_FLAG_Z_AXIS \in s.sc_flags THEN {"REL_WHEEL"} ELSE {},
     nkeys |-> s.sc_nbuttons]

\* fail names the call that fails: usbd_transfer_setup ("setup"),
\* usbd_req_get_hid_desc ("desc"), evdev_register_mtx ("register"), or "none"
utouch_attach(fail) ==
    /\ pc = "probed"
    /\ sc' = IF fail \in {"setup", "desc"}
             THEN ZeroSc
             ELSE utouch_hid_parse(ZeroSc, hid_desc)
    /\ IF fail = "none"
       THEN /\ evdev' = Supported(sc')
            /\ attach_err' = "0"
            /\ pc' = "attached"
       ELSE /\ evdev' = NoEvdev
            /\ attach_err' = "ENXIO"
            /\ pc' = "detached"
    /\ sc_temp' = ZeroTemp
    /\ hist' = NoHist
    /\ ndecodes' = 0
    /\ sink' = <<>>
    /\ UNCHANGED << hid_desc, probe_err, found, xfer, stall, events, last, cb,
                    call >>

Attach == \E fail \in {"none", "setup", "desc", "register"} : utouch_attach(fail)

utouch_detach ==
    /\ pc = "attached"
    /\ xfer = "idle"
    /\ pc' = "detached"
    /\ evdev' = NoEvdev
    /\ UNCHANGED << hid_desc, probe_err, found, attach_err, sc, sc_temp,
                    xfer, stall, events, last, cb, hist, ndecodes, sink, call >>

(***************************************************************************)
(* utouch_ev_open, utouch_ev_close                                         *)
(***************************************************************************)
\* usbd_transfer_start: the callback will run in USB_ST_SETUP
utouch_ev_open ==
    /\ pc = "attached"
    /\ xfer = "idle"
    /\ xfer' = "setup"
    /\ UNCHANGED << hid_desc, pc, probe_err, found, attach_err, sc, sc_temp,
                    evdev, stall, events, last, cb, hist, ndecodes, sink, call >>

\* usbd_transfer_stop: a submitted transfer completes with USB_ERR_CANCELLED
utouch_ev_close ==
    /\ pc = "attached"
    /\ xfer \in {"setup", "submitted"}
    /\ xfer' = IF xfer = "submitted" THEN "cancelled" ELSE "idle"
    /\ UNCHANGED << hid_desc, pc, probe_err, found, attach_err, sc, sc_temp,
                    evdev, stall, events, last, cb, hist, ndecodes, sink, call >>

(***************************************************************************)
(* utouch_intr_callback                                                    *)
(***************************************************************************)
\* variant: a zero-length transfer leaves the callback without a submit
ResubmitsDropEmpty(state, len, error) ==
    IF state = "USB_ST_TRANSFERRED"
    THEN IF NoData(TruncLen(len)) THEN 0 ELSE 1
    ELSE IF state = "USB_ST_SETUP"
         THEN 1
         ELSE IF error # "USB_ERR_CANCELLED" THEN 1 ELSE 0

\* the usbd_transfer_submit calls one invocation makes: every path of
\* USB_ST_TRANSFERRED reaches tr_setup (goto tr_setup when len == 0, falling
\* through after evdev_sync otherwise), USB_ST_SETUP is tr_setup, and the
\* default case jumps to it unless the error is USB_ERR_CANCELLED
Resubmits(state, len, error) ==
    IF state = "USB_ST_TRANSFERRED"
    THEN IF NoData(TruncLen(len)) THEN 1 ELSE 1
    ELSE IF state = "USB_ST_SETUP"
         THEN 1
         ELSE IF error # "USB_ERR_CANCELLED" THEN 1 ELSE 0

\* the transfer after an invocation that made n submit calls
AfterCallback(n) == IF n > 0 THEN "submitted" ELSE "idle"

\* case USB_ST_TRANSFERRED, for the report Reports[r]
IntrTransferred(r) ==
    /\ xfer = "submitted"
    /\ ndecodes < MaxDecodes
    /\ LET out == Transferred(sc, sc_temp, Reports[r])
       IN  /\ sc_temp' = out.temp
           /\ events' = out.events
           /\ cb' = [id |-> out.id, off |-> out.off, len |-> out.len]
           /\ hist' = IF hist[r].seen
                      THEN hist
                      ELSE [hist EXCEPT ![r] = [seen |-> TRUE, ev |-> out.events]]
    /\ last' = r
    /\ ndecodes' = ndecodes + 1
    /\ stall' = FALSE      \* the transfer completed: the stall was cleared
    /\ sink' = sink \o events'
    /\ call' = [state |-> "USB_ST_TRANSFERRED", error |-> "none",
                stalled |-> FALSE,
                submits |-> Resubmits("USB_ST_TRANSFERRED",
                                      Len(Reports[r]), "none")]
    /\ xfer' = AfterCallback(call'.submits)
    /\ UNCHANGED << hid_desc, pc, probe_err, found, attach_err, sc, evdev >>

IntrReport == \E r \in 1..Len(Reports) : IntrTransferred(r)

\* case USB_ST_SETUP
IntrSetup ==
    /\ xfer = "setup"
    /\ call' = [state |-> "USB_ST_SETUP", error |-> "none", stalled |-> FALSE,
                submits |-> Resubmits("USB_ST_SETUP", 0, "none")]
    /\ xfer' = AfterCallback(call'.submits)
    /\ events' = <<>>
    /\ last' = 0
    /\ cb' = NoCb
    /\ UNCHANGED << hid_desc, pc, probe_err, found, attach_err, sc, sc_temp,
                    evdev, stall, hist, ndecodes, sink >>

\* default: the transfer failed with error
IntrError(error) ==
    /\ xfer \in {"submitted", "cancelled"}
    /\ (error = "USB_ERR_CANCELLED") <=> (xfer = "cancelled")
    /\ stall' = IF error # "USB_ERR_CANCELLED" THEN TRUE ELSE stall
    /\ call' = [state |-> "USB_ST_ERROR", error |-> error,
                stalled |-> (error # "USB_ERR_CANCELLED"),
                submits |-> Resubmits("USB_ST_ERROR", 0, error)]
    /\ xfer' = AfterCallback(call'.submits)
    /\ events' = <<>>
    /\ last' = 0
    /\ cb' = NoCb
    /\ UNCHANGED << hid_desc, pc, probe_err, found, attach_err, sc, sc_temp,
                    evdev, hist, ndecodes, sink >>

IntrFailed ==
    \E error \in {"USB_ERR_CANCELLED", "USB_ERR_STALLED", "USB_ERR_TIMEOUT"} :
        IntrError(error)

(***************************************************************************)
(* Specifications.                                                         *)
(***************************************************************************)
Next ==
    \/ Probe
    \/ Redescribe
    \/ Attach
    \/ utouch_detach
    \/ utouch_ev_open
    \/ utouch_ev_close
    \/ IntrReport
    \/ IntrSetup
    \/ IntrFailed

Spec == Init /\ [][Next]_vars

\* the descriptor phase alone, over the enumerated descriptors
NextParse ==
    \/ Probe
    \/ Attach
    \/ utouch_detach

SpecParse == InitParse /\ [][NextParse]_vars


(***************************************************************************)
(* Properties of the scanner and the extractor.                            *)
(***************************************************************************)
\* mdepth after the walk has taken the items
RECURSIVE MouseDepth(_, _)
MouseDepth(mdepth, items) ==
    IF items = <<>> THEN mdepth
    ELSE MouseDepth(WalkDepth(mdepth, Head(items)), Tail(items))

\* item i is an eligible input field of usage u met at mdepth > 0
SeenAt(items, i, u) ==
    /\ IsEligible(items[i], u)
    /\ MouseDepth(0, SubSeq(items, 1, i - 1)) > 0

Seen(items, u) == \E i \in 1..Len(items) : SeenAt(items, i, u)

\* utouch_probe ran the scanner on the descriptor
Scanned == pc \in {"probed", "rejected"} /\ found >= 0

\* C1: the scanner accepts the device if and only if an eligible X field and
\* an eligible Y field are both seen at Mouse-collection depth > 0; a
\* descriptor with an eligible X but no eligible Y (or Y but no X) is rejected
C1_AcceptsIffXAndY ==
    Scanned =>
        ((probe_err = "BUS_PROBE_DEFAULT")
            <=> (Seen(hid_desc, HUG_X) /\ Seen(hid_desc, HUG_Y)))

\* utouch_attach ran the extractor on the descriptor and went on
Extracted == pc = "attached"

\* C2: whenever the scanner returns non-zero on a descriptor, the extractor
\* run on the same descriptor ends with the X-present and the Y-present flag
\* set, and sc_ai_x / sc_ai_y hold the logical minimum and maximum declared
\* on an X and on a Y input field
C2_AcceptedHasXAndY ==
    (Extracted /\ found > 0) =>
        /\ {UTOUCH_FLAG_X_AXIS, UTOUCH_FLAG_Y_AXIS} \subseteq sc.sc_flags
        /\ \E i \in 1..Len(hid_desc) :
              /\ SeenAt(hid_desc, i, HUG_X)
              /\ sc.sc_ai_x.min = hid_desc[i].logical_minimum
              /\ sc.sc_ai_x.max = hid_desc[i].logical_maximum
        /\ \E i \in 1..Len(hid_desc) :
              /\ SeenAt(hid_desc, i, HUG_Y)
              /\ sc.sc_ai_y.min = hid_desc[i].logical_minimum
              /\ sc.sc_ai_y.max = hid_desc[i].logical_maximum

\* utouch_attach ran the extractor (no call before it failed)
Parsed == attach_err # "none" /\ sc = utouch_hid_parse(ZeroSc, hid_desc)

\* C3: when extraction ends with no capability flag set, utouch_attach
\* abandons the setup: no evdev device is registered and attach does not
\* return success
C3_NoCapsAbandons ==
    (Parsed /\ sc.sc_flags = {}) =>
        (~evdev.registered /\ attach_err # "0")

(***************************************************************************)
(* Properties of the report decoder.                                       *)
(***************************************************************************)
\* the callback decoded report Reports[last] in its latest invocation
Decoded == last # 0

\* some capability of the set, X, Y, wheel or a recorded button, has a
\* non-zero report ID
AnyReportId(s) ==
    \/ s.sc_iid_x # 0
    \/ s.sc_iid_y # 0
    \/ s.sc_iid_z # 0
    \/ \E i \in 1..s.sc_nbuttons : s.sc_iid_btn[i] # 0

\* C4: the first byte of a non-empty report is consumed as the Report ID
\* (buffer start advanced by one, length decremented by one) if and only if
\* some capability, X, Y, wheel or a recorded button, has a non-zero report ID
C4_IdConsumedIffAnyId ==
    (Decoded /\ Len(Reports[last]) > 0) =>
        /\ (cb.off = 1) <=> AnyReportId(sc)
        /\ cb.off \in {0, 1}
        /\ cb.len = TruncLen(Len(Reports[last])) - cb.off


IsSync(e) == e.type = "EV_SYN"

C6_EmptyReportNoEvents ==
    (Decoded /\ Len(Reports[last]) = 0) => (events = <<>> /\ ~stall)

\* an empty report reached a decoder whose capability set reads a report ID
\* and has fields to decode
C6_EmptyReportDecoded ==
    /\ Decoded
    /\ Len(Reports[last]) = 0
    /\ HasReportId(sc)
    /\ sc.sc_nbuttons > 0
    /\ events = <<>>

\* the oversized report and the report made of its first TempSize bytes
LongIdx == CHOOSE r \in 1..Len(Reports) : Reports[r] = LongReport

PrefixIdx ==
    CHOOSE r \in 1..Len(Reports) : Reports[r] = SubSeq(LongReport, 1, TempSize)

\* C7: a report longer than the 64 bytes of sc_temp yields exactly the events
\* its first 64 bytes yield as a report of their own, and it is decoded, not
\* rejected
C7_OversizedAsPrefix ==
    /\ Len(Reports[LongIdx]) > TempSize
    /\ Reports[PrefixIdx] = SubSeq(Reports[LongIdx], 1, TempSize)
    /\ (last = LongIdx /\ hist[PrefixIdx].seen) => events = hist[PrefixIdx].ev
    /\ (last = PrefixIdx /\ hist[LongIdx].seen) => events = hist[LongIdx].ev
    /\ last = LongIdx => (events # <<>> /\ cb.off + cb.len = TempSize)

\* the oversized report was decoded after its prefix, with a field read from
\* the last byte of sc_temp
C7_OversizedDecoded ==
    /\ last = LongIdx
    /\ hist[PrefixIdx].seen
    /\ sc.sc_loc_x.pos = 8 * (TempSize - 1)
    /\ Len(events) = 3
    /\ events[1].value # 0

\* C8: a decode of a report yields the events the first decode of the same
\* report against this capability set yielded, whatever was decoded in
\* between, and no decode changes a capability field
C8_DecodeIsPure ==
    /\ [](Decoded => (hist[last].seen /\ events = hist[last].ev))
    /\ [][IntrReport => sc' = sc]_vars

\* a report is decoded for the second time with another report, longer and
\* different in the bytes the fields read, decoded in between
C8_DecodedAgain ==
    /\ Decoded
    /\ Reports[last] = ExampleReport
    /\ ndecodes = 3
    /\ hist[LongIdx].seen
    /\ sc.sc_nbuttons > 0
    /\ \E i \in 1..Len(events) : events[i].type = "EV_KEY" /\ events[i].value = 0

(***************************************************************************)
(* Properties of the button discovery.                                     *)
(***************************************************************************)
\* the descriptor has an input field of Button usage u
HasButton(items, u) ==
    \E j \in 1..Len(items) :
        items[j].kind = "hid_input" /\ items[j].usage = HID_USAGE2(HUP_BUTTON, u)

\* the length of the longest run of Button usages 1, 2, ..., k, k at most
\* UTOUCH_BUTTON_MAX, that all have an input field
ButtonRun(items) ==
    CHOOSE k \in 0..UTOUCH_BUTTON_MAX :
        /\ \A u \in 1..k : HasButton(items, u)
        /\ k < UTOUCH_BUTTON_MAX => ~HasButton(items, k + 1)

\* C9: the button count is the length of the longest run of Button usages
\* 1..k (k <= 8) with an input field anywhere in the descriptor, button i
\* (0-based) holds location and report ID of the field of usage i + 1, and
\* nothing is recorded at or beyond the first missing usage
C9_ButtonsPrefixClosed ==
    Extracted =>
        /\ sc.sc_nbuttons = ButtonRun(hid_desc)
        /\ \A i \in 1..sc.sc_nbuttons :
              \E j \in 1..Len(hid_desc) :
                  /\ hid_desc[j].kind = "hid_input"
                  /\ hid_desc[j].usage = HID_USAGE2(HUP_BUTTON, i)
                  /\ sc.sc_loc_btn[i] = hid_desc[j].loc
                  /\ sc.sc_iid_btn[i] = hid_desc[j].report_ID
        /\ \A i \in (sc.sc_nbuttons + 1)..UTOUCH_BUTTON_MAX :
              sc.sc_loc_btn[i] = ZeroLoc /\ sc.sc_iid_btn[i] = 0

\* usage 3 is absent, usage 4 and more than eight usages in all are not
\* needed: usages 1, 2 and 4 are present and two buttons are recorded
C9_GapStopsDiscovery ==
    /\ Extracted
    /\ HasButton(hid_desc, 1) /\ HasButton(hid_desc, 2)
    /\ ~HasButton(hid_desc, 3) /\ HasButton(hid_desc, 4)
    /\ sc.sc_nbuttons = 2

(***************************************************************************)
(* The worked example.                                                     *)
(***************************************************************************)
\* C10: the example descriptor extracts X and Y present with 3 buttons, and
\* the report 00 10 20 05 decodes to AbsMove X = 16, AbsMove Y = 32, Button 0
\* pressed, Button 1 released, Button 2 pressed, Sync, in this order (a
\* button is pressed when its value is not 0)
C10_Example ==
    (Extracted /\ hid_desc = ExampleDesc) =>
        /\ sc.sc_flags = {UTOUCH_FLAG_X_AXIS, UTOUCH_FLAG_Y_AXIS}
        /\ sc.sc_nbuttons = 3
        /\ (Decoded /\ Reports[last] = ExampleReport) =>
              /\ Len(events) = 6
              /\ events[1] = Ev("EV_ABS", "ABS_X", 0, 16)
              /\ events[2] = Ev("EV_ABS", "ABS_Y", 0, 32)
              /\ [events[3] EXCEPT !.value = 0] = Ev("EV_KEY", "BTN_MOUSE", 0, 0)
              /\ events[3].value # 0
              /\ events[4] = Ev("EV_KEY", "BTN_MOUSE", 1, 0)
              /\ [events[5] EXCEPT !.value = 0] = Ev("EV_KEY", "BTN_MOUSE", 2, 0)
              /\ events[5].value # 0
              /\ IsSync(events[6])

\* the example report was decoded against the example descriptor
C10_ExampleDecoded ==
    /\ Extracted
    /\ hid_desc = ExampleDesc
    /\ Decoded
    /\ Reports[last] = ExampleReport
    /\ Len(events) = 6


(***************************************************************************)
(* Report ID matching.                                                     *)
(***************************************************************************)
\* the latest decode pushed an event of this type, code and index
Pushed(type, code, idx) ==
    \E i \in 1..Len(events) :
        events[i].type = type /\ events[i].code = code /\ events[i].idx = idx

\* C11: when a Report ID byte was read from the report, each of X, Y, wheel
\* and every recorded button yields an event if and only if it is present and
\* its own report ID equals the ID read; a capability with report ID 0 yields
\* none when the ID read is not 0, and the mismatch is no error
C11_EventIffIdMatches ==
    (Decoded /\ cb.off = 1) =>
        /\ cb.id = Reports[last][1]
        /\ Pushed("EV_ABS", "ABS_X", 0)
               <=> (UTOUCH_FLAG_X_AXIS \in sc.sc_flags /\ sc.sc_iid_x = cb.id)
        /\ Pushed("EV_ABS", "ABS_Y", 0)
               <=> (UTOUCH_FLAG_Y_AXIS \in sc.sc_flags /\ sc.sc_iid_y = cb.id)
        /\ Pushed("EV_REL", "REL_WHEEL", 0)
               <=> (UTOUCH_FLAG_Z_AXIS \in sc.sc_flags /\ sc.sc_iid_z = cb.id)
        /\ \A i \in 0..(UTOUCH_BUTTON_MAX - 1) :
               Pushed("EV_KEY", "BTN_MOUSE", i)
                   <=> (i < sc.sc_nbuttons /\ sc.sc_iid_btn[i + 1] = cb.id)
        /\ ~stall

\* ID 1 was read: X in report 1 yields an event, the wheel and the buttons,
\* present with report ID 0, yield none
C11_ZeroIdSkipped ==
    /\ Decoded
    /\ cb.off = 1
    /\ cb.id = 1
    /\ sc.sc_iid_x = 1
    /\ UTOUCH_FLAG_Z_AXIS \in sc.sc_flags /\ sc.sc_iid_z = 0
    /\ sc.sc_nbuttons = 2 /\ sc.sc_iid_btn[1] = 0
    /\ Pushed("EV_ABS", "ABS_X", 0)
    /\ ~Pushed("EV_REL", "REL_WHEEL", 0)
    /\ ~Pushed("EV_KEY", "BTN_MOUSE", 0)
    /\ Len(events) = 2


(***************************************************************************)
(* Collection scope of the X and Y fields.                                 *)
(***************************************************************************)
\* collections opened minus collections closed by items a..b
Balance(items, a, b) ==
    Cardinality({k \in a..b : items[k].kind = "hid_collection"})
        - Cardinality({k \in a..b : items[k].kind = "hid_endcollection"})

\* the collection opened by item j is still open when item i is met
Encloses(items, j, i) ==
    /\ j < i
    /\ items[j].kind = "hid_collection"
    /\ \A k \in (j + 1)..(i - 1) : Balance(items, j + 1, k) >= 0

IsMouseApp(hi) ==
    /\ hi.kind = "hid_collection"
    /\ hi.collection = 1
    /\ hi.usage = GD(HUG_MOUSE)

\* item i lies inside a Mouse application collection, at any nesting level
InMouse(items, i) ==
    \E j \in 1..(i - 1) : IsMouseApp(items[j]) /\ Encloses(items, j, i)

\* item i lies inside a Mouse application collection no collection encloses
InTopMouse(items, i) ==
    \E j \in 1..(i - 1) :
        /\ IsMouseApp(items[j])
        /\ Encloses(items, j, i)
        /\ ~ \E h \in 1..(j - 1) : Encloses(items, h, j)

\* the eligible X and Y fields of the descriptor that satisfy In
FieldsIn(items, u, In(_, _)) ==
    {i \in 1..Len(items) : IsEligible(items[i], u) /\ In(items, i)}

\* C12 as stated: X and Y fields count only inside a Mouse application
\* collection that no other collection encloses
C12_TopLevelMouseOnly ==
    Extracted =>
        /\ (UTOUCH_FLAG_X_AXIS \in sc.sc_flags)
               <=> (FieldsIn(hid_desc, HUG_X, InTopMouse) # {})
        /\ (UTOUCH_FLAG_Y_AXIS \in sc.sc_flags)
               <=> (FieldsIn(hid_desc, HUG_Y, InTopMouse) # {})
        /\ found = Cardinality(FieldsIn(hid_desc, HUG_X, InTopMouse))
                   + Cardinality(FieldsIn(hid_desc, HUG_Y, InTopMouse))

\* C12: the scanner counts, and the extractor records, exactly the eligible X
\* and Y fields that lie inside a Mouse application collection, whether or
\* not that collection is itself enclosed in a non-Mouse collection; fields
\* inside no Mouse application collection are not counted
C12_AnyMouseCollection ==
    Extracted =>
        /\ (UTOUCH_FLAG_X_AXIS \in sc.sc_flags)
               <=> (FieldsIn(hid_desc, HUG_X, InMouse) # {})
        /\ (UTOUCH_FLAG_Y_AXIS \in sc.sc_flags)
               <=> (FieldsIn(hid_desc, HUG_Y, InMouse) # {})
        /\ found = Cardinality(FieldsIn(hid_desc, HUG_X, InMouse))
                   + Cardinality(FieldsIn(hid_desc, HUG_Y, InMouse))

\* an X field of a Mouse application collection nested in a non-Mouse
\* collection was counted and recorded
C12_NestedMouseCounted ==
    /\ Extracted
    /\ found = 1
    /\ UTOUCH_FLAG_X_AXIS \in sc.sc_flags
    /\ \E i \in 1..Len(hid_desc) :
          /\ IsEligible(hid_desc[i], HUG_X)
          /\ InMouse(hid_desc, i)
          /\ ~InTopMouse(hid_desc, i)


(***************************************************************************)
(* The mouse-collection depth of the two walks.                            *)
(***************************************************************************)
\* the scanner's and the extractor's loop state after the first n items
TestAt(items, n) ==
    TestWalk([mdepth |-> 0, found |-> 0], SubSeq(items, 1, n))

ParseAt(items, n) ==
    ParseWalk([mdepth |-> 0, sc |-> ZeroSc, nset |-> 0], SubSeq(items, 1, n))

\* what item hi may do to a depth d0 that becomes d1
DepthStep(hi, d0, d1) ==
    /\ d1 >= 0
    /\ (hi.kind = "hid_endcollection") =>
           d1 = (IF d0 = 0 THEN 0 ELSE d0 - 1)
    /\ (hi.kind = "hid_collection" /\ d0 = 0) =>
           d1 = (IF IsMouseApp(hi) THEN 1 ELSE 0)
    /\ (hi.kind = "hid_collection" /\ d0 > 0) => d1 = d0 + 1
    /\ (hi.kind = "hid_input") => d1 = d0

\* C13: in both walks the depth starts at 0, is never negative, an End
\* Collection at depth 0 leaves it 0, a Collection raises it from 0 only when
\* it is application/Mouse and always when it is above 0, and an Input item
\* changes the found count or the X/Y slots only at depth above 0
C13_DepthRules ==
    (Scanned \/ Extracted) =>
        /\ TestAt(hid_desc, 0).mdepth = 0
        /\ ParseAt(hid_desc, 0).mdepth = 0
        /\ \A n \in 1..Len(hid_desc) :
              LET hi == hid_desc[n]
                  t0 == TestAt(hid_desc, n - 1)
                  t1 == TestAt(hid_desc, n)
                  p0 == ParseAt(hid_desc, n - 1)
                  p1 == ParseAt(hid_desc, n)
              IN  /\ DepthStep(hi, t0.mdepth, t1.mdepth)
                  /\ DepthStep(hi, p0.mdepth, p1.mdepth)
                  /\ (hi.kind = "hid_input" /\ t0.mdepth = 0) =>
                         t1.found = t0.found
                  /\ (hi.kind = "hid_input" /\ p0.mdepth = 0) =>
                         p1.sc = p0.sc
                  /\ (hi.kind # "hid_input") =>
                         (t1.found = t0.found /\ p1.sc = p0.sc)
        /\ found = TestAt(hid_desc, Len(hid_desc)).found
        /\ Extracted =>
               (sc.sc_flags \cap {UTOUCH_FLAG_X_AXIS, UTOUCH_FLAG_Y_AXIS})
                   = ParseAt(hid_desc, Len(hid_desc)).sc.sc_flags

\* the Mouse application collection was closed before an eligible X field:
\* the field is met at depth 0 and the scan found nothing
C13_FieldAfterCloseIgnored ==
    /\ Scanned
    /\ found = 0
    /\ \E n \in 3..Len(hid_desc) :
          /\ IsMouseApp(hid_desc[n - 2])
          /\ hid_desc[n - 1].kind = "hid_endcollection"
          /\ IsEligible(hid_desc[n], HUG_X)
          /\ TestAt(hid_desc, n - 2).mdepth = 1
          /\ TestAt(hid_desc, n - 1).mdepth = 0


(***************************************************************************)
(* Several eligible fields of one axis.                                    *)
(***************************************************************************)
\* the last of a non-empty set of item indices
LastOf(S) == CHOOSE i \in S : \A j \in S : j <= i

\* the capability a slot holds is the one declared by item hi
SlotIs(loc, iid, ai, hi) ==
    /\ loc = hi.loc
    /\ iid = hi.report_ID
    /\ ai = [max |-> hi.logical_maximum,
             min |-> hi.logical_minimum,
             res |-> hi.res]

\* C14: when several eligible X (resp. Y) fields lie inside the Mouse
\* collection, the extracted location, report ID, minimum, maximum and
\* resolution are all those of the last such field; a later X or Y field that
\* is not eligible neither overwrites nor clears them
C14_LastEligibleWins ==
    Extracted =>
        LET xs == FieldsIn(hid_desc, HUG_X, InMouse)
            ys == FieldsIn(hid_desc, HUG_Y, InMouse)
        IN  /\ (xs # {}) =>
                   SlotIs(sc.sc_loc_x, sc.sc_iid_x, sc.sc_ai_x,
                          hid_desc[LastOf(xs)])
            /\ (ys # {}) =>
                   SlotIs(sc.sc_loc_y, sc.sc_iid_y, sc.sc_ai_y,
                          hid_desc[LastOf(ys)])

\* two eligible X fields that differ in every respect: the second is held
C14_SecondFieldHeld ==
    /\ Extracted
    /\ \E i, j \in FieldsIn(hid_desc, HUG_X, InMouse) :
          /\ i < j
          /\ hid_desc[i].loc # hid_desc[j].loc
          /\ hid_desc[i].report_ID # hid_desc[j].report_ID
          /\ hid_desc[i].logical_minimum # hid_desc[j].logical_minimum
          /\ hid_desc[i].logical_maximum # hid_desc[j].logical_maximum
          /\ hid_desc[i].res # hid_desc[j].res
          /\ SlotIs(sc.sc_loc_x, sc.sc_iid_x, sc.sc_ai_x, hid_desc[j])


(***************************************************************************)
(* Wheel discovery.                                                        *)
(***************************************************************************)
\* the input fields of usage u, wherever they lie
InputsOf(items, u) ==
    {i \in 1..Len(items) : items[i].kind = "hid_input" /\ items[i].usage = GD(u)}

FirstOf(S) == CHOOSE i \in S : \A j \in S : i <= j

\* C15: wheel discovery ignores the collection scope and takes the first
\* Wheel input field of the descriptor; the tilt wheel is consulted only when
\* the descriptor has no Wheel input field at all; wheel-present is set if
\* and only if the field taken has the variable flag, so a Wheel field that
\* is not variable followed by a variable tilt wheel leaves it unset
C15_WheelThenTilt ==
    Extracted =>
        LET ws == InputsOf(hid_desc, HUG_WHEEL)
            ts == InputsOf(hid_desc, HUG_TWHEEL)
        IN  /\ (ws # {}) =>
                   /\ sc.sc_loc_z = hid_desc[FirstOf(ws)].loc
                   /\ sc.sc_iid_z = hid_desc[FirstOf(ws)].report_ID
                   /\ (UTOUCH_FLAG_Z_AXIS \in sc.sc_flags)
                          <=> (HIO_VARIABLE \in hid_desc[FirstOf(ws)].flags)
            /\ (ws = {} /\ ts # {}) =>
                   /\ sc.sc_loc_z = hid_desc[FirstOf(ts)].loc
                   /\ sc.sc_iid_z = hid_desc[FirstOf(ts)].report_ID
                   /\ (UTOUCH_FLAG_Z_AXIS \in sc.sc_flags)
                          <=> (HIO_VARIABLE \in hid_desc[FirstOf(ts)].flags)
            /\ (ws = {} /\ ts = {}) => UTOUCH_FLAG_Z_AXIS \notin sc.sc_flags

\* a Wheel field without the variable flag and a variable tilt wheel, both
\* outside the Mouse collection: the Wheel field was taken, wheel-present is
\* not set
C15_TiltNotConsulted ==
    /\ Extracted
    /\ UTOUCH_FLAG_Z_AXIS \notin sc.sc_flags
    /\ \E w \in InputsOf(hid_desc, HUG_WHEEL) :
          /\ HIO_VARIABLE \notin hid_desc[w].flags
          /\ ~InMouse(hid_desc, w)
          /\ sc.sc_loc_z = hid_desc[w].loc
    /\ \E t \in InputsOf(hid_desc, HUG_TWHEEL) :
          /\ HIO_VARIABLE \in hid_desc[t].flags
          /\ ~InMouse(hid_desc, t)


(***************************************************************************)
(* Signedness of the extracted axis values.                                *)
(***************************************************************************)
\* the loc.size bits at bit loc.pos of the decoded buffer, as they lie there
RawBits(loc) ==
    LET n == (loc.size + 7) \div 8
    IN  (GetBytes(sc_temp, cb.off, cb.len, loc.pos \div 8, n)
             \div Pow2(loc.pos % 8)) % Pow2(loc.size)

\* the two's-complement reading of a raw value of size bits
SignExtend(raw, size) ==
    IF raw >= Pow2(size - 1) THEN raw - Pow2(size) ELSE raw

\* the value the claim expects for an axis with the recorded minimum
ExpectedValue(loc, ai) ==
    IF ai.min < 0 THEN SignExtend(RawBits(loc), loc.size) ELSE RawBits(loc)

\* C16: the decoder sign-extends the extracted X or Y value only when the
\* logical minimum recorded for the axis is negative; an 8-bit X with logical
\* minimum 0 and raw byte 0x80 is emitted as 128
C16_SignedOnlyIfNegativeMin ==
    Decoded =>
        \A i \in 1..Len(events) :
            /\ (events[i].code = "ABS_X") =>
                   events[i].value = ExpectedValue(sc.sc_loc_x, sc.sc_ai_x)
            /\ (events[i].code = "ABS_Y") =>
                   events[i].value = ExpectedValue(sc.sc_loc_y, sc.sc_ai_y)


(***************************************************************************)
(* Order of the events of a report.                                        *)
(***************************************************************************)
\* the place of an event in the order X, Y, wheel, buttons ascending, Sync
Rank(e) ==
    IF e.code = "ABS_X" THEN 0
    ELSE IF e.code = "ABS_Y" THEN 1
    ELSE IF e.code = "REL_WHEEL" THEN 2
    ELSE IF e.code = "BTN_MOUSE" THEN 3 + e.idx
    ELSE 3 + UTOUCH_BUTTON_MAX

\* C17: the events of a report come in the order X, Y, wheel, buttons in
\* ascending index, Sync; each capability yields at most one event per report,
\* so a report yields at most 3 + sc_nbuttons data events and one Sync; in the
\* stream the evdev device receives, the events of one report are never
\* mixed with those of another
C17_FixedEventOrder ==
    /\ Decoded =>
           /\ \A i, j \in 1..Len(events) :
                  i < j => Rank(events[i]) < Rank(events[j])
           /\ Cardinality({i \in 1..Len(events) : ~IsSync(events[i])})
                  <= 3 + sc.sc_nbuttons
           /\ Cardinality({i \in 1..Len(events) : IsSync(events[i])}) <= 1
           /\ Len(sink) >= Len(events)
           /\ SubSeq(sink, Len(sink) - Len(events) + 1, Len(sink)) = events
    /\ \A i \in 1..(Len(sink) - 1) :
           ~IsSync(sink[i]) => Rank(sink[i]) < Rank(sink[i + 1])
    /\ sink # <<>> => IsSync(sink[Len(sink)])

\* a report that yields X, Y, the wheel, two buttons and the Sync, decoded
\* after another report that yielded as many
C17_FullReportTwice ==
    /\ Decoded
    /\ ndecodes >= 2
    /\ Len(events) = 6
    /\ Len(sink) >= 12
    /\ events[1].code = "ABS_X"
    /\ events[2].code = "ABS_Y"
    /\ events[3].code = "REL_WHEEL"
    /\ events[4].code = "BTN_MOUSE" /\ events[4].idx = 0
    /\ events[5].code = "BTN_MOUSE" /\ events[5].idx = 1
    /\ IsSync(events[6])


(***************************************************************************)
(* The effective buffer stays inside sc_temp.                              *)
(***************************************************************************)
\* C18: when decoding proceeds, the buffer starts off bytes into sc_temp and
\* has len bytes with off + len never above 64: without an ID byte
\* 1 <= len <= 64, after an ID byte was consumed 0 <= len <= 63; a report of
\* one byte in report-ID mode is decoded against length 0, not skipped
C18_BufferInsideTemp ==
    (Decoded /\ Reports[last] # <<>>) =>
        /\ cb.off \in {0, 1}
        /\ cb.off + cb.len <= TempSize
        /\ cb.off + cb.len >= 1
        /\ cb.off + cb.len =
               (IF Len(Reports[last]) > TempSize
                THEN TempSize ELSE Len(Reports[last]))
        /\ (cb.off = 0) => (1 <= cb.len /\ cb.len <= TempSize)
        /\ (cb.off = 1) => (0 <= cb.len /\ cb.len <= TempSize - 1)
        /\ (cb.off = 1) <=> HasReportId(sc)
        /\ (Len(Reports[last]) = 1 /\ HasReportId(sc)) =>
               (cb.len = 0 /\ events # <<>> /\ IsSync(events[Len(events)]))

\* a report of one byte, its ID: decoded against length 0, the X field that
\* matches the ID reads as 0 and the Sync follows
C18_LoneIdByteDecoded ==
    /\ Decoded
    /\ Len(Reports[last]) = 1
    /\ cb.off = 1
    /\ cb.len = 0
    /\ cb.id = sc.sc_iid_x
    /\ Len(events) >= 2
    /\ events[1].code = "ABS_X" /\ events[1].value = 0
    /\ IsSync(events[Len(events)])


(***************************************************************************)
(* Re-submission of the interrupt transfer.                                *)
(***************************************************************************)
\* what the latest invocation of the callback did, by its state
CallbackResubmits ==
    /\ (call.state \in {"USB_ST_SETUP", "USB_ST_TRANSFERRED"}) =>
           (call.submits = 1 /\ ~call.stalled)
    /\ (call.state = "USB_ST_ERROR" /\ call.error # "USB_ERR_CANCELLED") =>
           (call.submits = 1 /\ call.stalled /\ stall)
    /\ (call.state = "USB_ST_ERROR" /\ call.error = "USB_ERR_CANCELLED") =>
           (call.submits = 0 /\ ~call.stalled /\ events = <<>>)

\* C19: every invocation of the callback in USB_ST_SETUP or
\* USB_ST_TRANSFERRED, whatever the report, submits the transfer again
\* exactly once; an error other than USB_ERR_CANCELLED sets the stall and
\* submits it exactly once; USB_ERR_CANCELLED submits nothing and pushes no
\* event; so a submitted transfer stays submitted through every report and
\* every such error and leaves that state only by being stopped
C19_AlwaysResubmitted ==
    /\ []CallbackResubmits
    /\ [][(IntrReport \/ IntrSetup) => xfer' = "submitted"]_vars
    /\ [][(xfer = "submitted" /\ xfer' # "submitted") => utouch_ev_close]_vars
    /\ [][(IntrFailed /\ xfer = "cancelled") => (xfer' = "idle" /\ sink' = sink)]_vars

\* reports were decoded, among them the zero-length one, then a transfer
\* failed with an error other than cancellation: stall set, one submit, the
\* transfer is submitted again
C19_ResubmittedAfterError ==
    /\ hist[1].seen
    /\ ndecodes >= 2
    /\ call.state = "USB_ST_ERROR"
    /\ call.error = "USB_ERR_TIMEOUT"
    /\ call.submits = 1
    /\ stall
    /\ xfer = "submitted"


(***************************************************************************)
(* The scanner and the extractor agree.                                    *)
(***************************************************************************)
\* C20: utouch_hid_test returns non-zero on a descriptor if and only if
\* utouch_hid_parse, run on it from a zeroed softc, sets the X-present or the
\* Y-present flag; the count it returns is the number of times the extractor
\* overwrote an X or a Y slot; the two walks are at the same depth after
\* every item
C20_ScanAgreesWithExtract ==
    (Scanned \/ Extracted) =>
        LET parsed == utouch_hid_parse(ZeroSc, hid_desc)
            xy     == {UTOUCH_FLAG_X_AXIS, UTOUCH_FLAG_Y_AXIS}
        IN  /\ (found # 0) <=> (parsed.sc_flags \cap xy # {})
            /\ found = ParseAt(hid_desc, Len(hid_desc)).nset
            /\ \A n \in 0..Len(hid_desc) :
                   /\ TestAt(hid_desc, n).mdepth = ParseAt(hid_desc, n).mdepth
                   /\ TestAt(hid_desc, n).found = ParseAt(hid_desc, n).nset
            /\ Extracted => (sc = parsed /\ sc.sc_flags \cap xy # {})

\* the scanner counted two fields, the extractor overwrote the X slot twice
\* and the Y slot never
C20_TwoCountedOneSlot ==
    /\ Extracted
    /\ found = 2
    /\ ParseAt(hid_desc, Len(hid_desc)).nset = 2
    /\ Cardinality(FieldsIn(hid_desc, HUG_X, InMouse)) = 2
    /\ sc.sc_flags \cap {UTOUCH_FLAG_X_AXIS, UTOUCH_FLAG_Y_AXIS}
           = {UTOUCH_FLAG_X_AXIS}

=============================================================================
